---- MODULE Spec2Model ----
(***************************************************************************)
(* The aircraft-crew avatar demo as a state machine.                       *)
(*                                                                         *)
(* Two applications are modelled side by side, selected by `version`:      *)
(*   "fiber"       the react-three-fiber application, src/src/App.tsx      *)
(*                 (src/unnamed/part_000 lines 1-507 repeats its logic     *)
(*                 verbatim with another avatar mesh);                     *)
(*   "talkinghead" the TalkingHead application, src/unnamed/part_000       *)
(*                 lines 508-977.                                          *)
(*                                                                         *)
(* The React state of the component is the set of variables; every event   *)
(* handler is one action.  Handlers that are created once at mount (the    *)
(* recognition callbacks) read the state of the mount render, the others   *)
(* read the current state.  The host's speech recognition and speech       *)
(* synthesis engines and the TalkingHead library are the environment:      *)
(* their callbacks are actions of their own.                               *)
(* Status texts are written without their leading emoji.                   *)
(***************************************************************************)
EXTENDS Integers, Sequences, FiniteSets, TLC

\* ------------------------------------------------------------------ bounds
\* Utterances queued in the host's speech synthesis at a time.
MaxQueue == 2
\* Pending return-to-idle / lip-sync-off timers of each kind.
MaxTimers == 2
\* executeCommand calls suspended at an await at a time (TalkingHead version).
MaxExec == 1
\* Texts the TalkingHead avatar has been given and not finished speaking.
MaxHeadSpeech == 1

\* ------------------------------------------------------- string functions
UpperAlphabet == "ABCDEFGHIJKLMNOPQRSTUVWXYZ"
LowerAlphabet == "abcdefghijklmnopqrstuvwxyz"

CharAt(s, i) == SubSeq(s, i, i)

\* The place of the one-character string c in alphabet, 0 when absent.
AlphabetIndex(alphabet, c) ==
    IF \E i \in 1..Len(alphabet) : CharAt(alphabet, i) = c
    THEN CHOOSE i \in 1..Len(alphabet) : CharAt(alphabet, i) = c
    ELSE 0

RECURSIVE MapChars(_, _, _)
MapChars(s, from, to) ==
    IF Len(s) = 0 THEN ""
    ELSE LET c == CharAt(s, 1)
             i == AlphabetIndex(from, c)
         IN  (IF i = 0 THEN c ELSE CharAt(to, i))
                 \o MapChars(SubSeq(s, 2, Len(s)), from, to)

\* String.prototype.toLowerCase / toUpperCase
toLowerCase(s) == MapChars(s, UpperAlphabet, LowerAlphabet)
toUpperCase(s) == MapChars(s, LowerAlphabet, UpperAlphabet)

\* String.prototype.includes: t occurs in s at some position (the empty
\* string occurs in every string).
includes(s, t) ==
    \E i \in 1..(Len(s) - Len(t) + 1) : SubSeq(s, i, i + Len(t) - 1) = t

\* String.prototype.trim, for the blank character.
RECURSIVE trimStart(_)
trimStart(s) ==
    IF Len(s) > 0 /\ CharAt(s, 1) = " " THEN trimStart(SubSeq(s, 2, Len(s))) ELSE s

RECURSIVE trimEnd(_)
trimEnd(s) ==
    IF Len(s) > 0 /\ CharAt(s, Len(s)) = " "
    THEN trimEnd(SubSeq(s, 1, Len(s) - 1)) ELSE s

trim(s) == trimEnd(trimStart(s))

\* String.prototype.split(' '): the pieces between blanks, empty pieces kept
\* (the empty string splits into one empty piece).
RECURSIVE splitAt(_, _)
splitAt(s, piece) ==
    IF Len(s) = 0 THEN <<piece>>
    ELSE IF CharAt(s, 1) = " "
         THEN <<piece>> \o splitAt(SubSeq(s, 2, Len(s)), "")
         ELSE splitAt(SubSeq(s, 2, Len(s)), piece \o CharAt(s, 1))

split(s) == splitAt(s, "")

\* Array.prototype.join
RECURSIVE join(_, _)
join(seq, sep) ==
    IF Len(seq) = 0 THEN ""
    ELSE IF Len(seq) = 1 THEN seq[1]
         ELSE seq[1] \o sep \o join(Tail(seq), sep)

\* Array.prototype.find over indices 1..n: the first index satisfying P,
\* 0 for undefined.
find(n, P(_)) ==
    IF \E i \in 1..n : P(i)
    THEN CHOOSE i \in 1..n : P(i) /\ \A j \in 1..(i - 1) : ~P(j)
    ELSE 0

\* -------------------------------------------------------- command tables
\* react-three-fiber version: keyword and animation tag.
FiberVoiceCommands ==
    << [text |-> "turbulence", animation |-> "alert"],
       [text |-> "seatbelt",   animation |-> "instruction"],
       [text |-> "landing",    animation |-> "announcement"],
       [text |-> "takeoff",    animation |-> "preparation"],
       [text |-> "emergency",  animation |-> "urgent"],
       [text |-> "welcome",    animation |-> "greeting"],
       [text |-> "safety",     animation |-> "demonstration"] >>

\* react-three-fiber version: the instruction texts, keyed by keyword.
FiberInstructions ==
    [ turbulence |-> "Ladies and gentlemen, we are experiencing some turbulence. Please return to your seats and fasten your seatbelts immediately.",
      seatbelt   |-> "The seatbelt sign has been turned on. Please fasten your seatbelts and return your seats to the upright position.",
      landing    |-> "We are beginning our descent for landing. Please ensure your seat backs and tray tables are in their upright position.",
      takeoff    |-> "Ladies and gentlemen, we are preparing for takeoff. Please ensure your seats are in the upright position.",
      emergency  |-> "This is an emergency announcement. Please remain calm and follow the instructions of the cabin crew immediately.",
      welcome    |-> "Welcome aboard this flight. We hope you have a pleasant journey with us today.",
      safety     |-> "Please review the safety information card in your seat pocket and listen carefully to our safety demonstration." ]

DefaultInstruction == "Command acknowledged."

getInstructionForCommand_noTakeoff(command) ==
    IF command \in (DOMAIN FiberInstructions) \ {"takeoff"}
    THEN FiberInstructions[command]
    ELSE DefaultInstruction

\* instructions[command] || 'Command acknowledged.'
getInstructionForCommand(command) ==
    IF command \in DOMAIN FiberInstructions
    THEN FiberInstructions[command]
    ELSE DefaultInstruction

\* TalkingHead version: keyword, instruction text and gesture.
voiceCommands ==
    << [command |-> "turbulence", gesture |-> "wave",
        instruction |-> "Ladies and gentlemen, we are experiencing some turbulence. Please return to your seats and fasten your seatbelts immediately for your safety."],
       [command |-> "seatbelt", gesture |-> "point",
        instruction |-> "The seatbelt sign has been turned on. Please fasten your seatbelts and return your seats to the upright position."],
       [command |-> "landing", gesture |-> "explain",
        instruction |-> "We are beginning our descent for landing. Please ensure your seat backs and tray tables are in their upright position."],
       [command |-> "safety", gesture |-> "present",
        instruction |-> "Please review the safety information card in your seat pocket and listen carefully to our safety demonstration."],
       [command |-> "welcome", gesture |-> "greet",
        instruction |-> "Welcome aboard this flight. We hope you have a pleasant journey with us today."],
       [command |-> "emergency", gesture |-> "alert",
        instruction |-> "This is an emergency announcement. Please remain calm and follow the instructions of the cabin crew immediately."] >>

\* ------------------------------------------------------------ transcripts
\* What the recognition engine may hand to onresult, as the engine spells it.
\* The audio file of each command, as the audio README names them and as its
\* example gives the audioPath property.
AudioPath ==
    [i \in 1..Len(voiceCommands) |-> "/assets/audio/" \o voiceCommands[i].command \o ".mp3"]

\* FallbackAvatar's per-frame update: the branch of `switch (animation)` that
\* moves the avatar, and the branch that poses the eyebrows.
AnimationEffect(animation) ==
    CASE animation = "alert" -> "alert"
      [] animation = "instruction" -> "instruction"
      [] animation = "announcement" -> "announcement"
      [] OTHER -> "default"

EyebrowExpression(animation) ==
    CASE animation = "alert" -> "alert"
      [] animation = "instruction" -> "instruction"
      [] animation = "announcement" -> "announcement"
      [] OTHER -> "default"

Transcripts ==
    { "Seatbelt",
      "welcome to the safety demo",
      "hello crew",
      "sea",
      " good  morning" }

\* The example phrases of the README's voice-command table, with the command
\* of their row.
ReadmeCommand ==
    [ rough |-> "turbulence", bumpy |-> "turbulence",
      belt |-> "seatbelt", buckle |-> "seatbelt",
      descent |-> "landing", arrival |-> "landing",
      demonstration |-> "safety",
      greeting |-> "welcome",
      urgent |-> "emergency", alert |-> "emergency" ]

ReadmePhrases == DOMAIN ReadmeCommand

AllTranscripts == Transcripts \cup ReadmePhrases

\* The string functions applied to the finitely many transcripts and keywords,
\* tabulated once.
LowerCased == [t \in AllTranscripts |-> toLowerCase(t)]

FiberUpperCased == [i \in 1..Len(FiberVoiceCommands) |-> toUpperCase(FiberVoiceCommands[i].text)]

UpperCased == [i \in 1..Len(voiceCommands) |-> toUpperCase(voiceCommands[i].command)]

\* transcript.toLowerCase().trim() of the TalkingHead result handler
Trimmed == [t \in AllTranscripts |-> trim(toLowerCase(t))]

\* ------------------------------------------------------------- the state
VARIABLES
    version,          \* which application runs
    isListening,      \* useState: the listening flag
    isSpeaking,       \* useState: the speaking flag
    currentStatus,    \* useState: the status text
    recognition,      \* the host recognition session: idle, starting, running,
                      \* stopping (end pending), errored (error sent, end pending)
    synthQueue,       \* speechSynthesis: texts of the utterances queued, head speaking
    currentAnimation, \* fiber: avatarState.currentAnimation
    lipSyncActive,    \* fiber: avatarState.lipSyncActive
    recognizedText,   \* fiber: avatarState.recognizedText
    lipTimers,        \* fiber: pending lip-sync-off timeouts
    animTimers,       \* fiber: pending return-to-idle timeouts
    isAvatarReady,    \* talkinghead: useState, the avatar-ready flag
    avatarRef,        \* talkinghead: avatarRef.current, "null" or "head"
    loading,          \* talkinghead: where initializeTalkingHead stands
    execs,            \* talkinghead: the executeCommand calls suspended at an await
    headSpeech,       \* talkinghead: instruction texts the TalkingHead avatar is speaking
    headGesture,      \* talkinghead: the gesture last requested from the avatar
    audioFiles,       \* the audio files installed under public/assets/audio
    audioPlaying      \* the audio file being played, "none" when none is

vars == << version, isListening, isSpeaking, currentStatus, recognition, synthQueue,
           currentAnimation, lipSyncActive, recognizedText, lipTimers, animTimers,
           isAvatarReady, avatarRef, loading, execs, headSpeech, headGesture,
           audioFiles, audioPlaying >>

thVars == << isAvatarReady, avatarRef, loading, execs, headSpeech, headGesture >>

fiberVars == << currentAnimation, lipSyncActive, recognizedText, lipTimers, animTimers >>

\* The state after mount, with the audio files `files` installed.
Mounted(files) ==
    /\ version \in {"fiber", "talkinghead"}
    /\ isListening = FALSE
    /\ isSpeaking = FALSE
    /\ currentStatus = IF version = "fiber" THEN "Ready for voice commands"
                       ELSE "Loading professional avatar system..."
    /\ recognition = "idle"
    /\ synthQueue = << >>
    /\ currentAnimation = "idle"
    /\ lipSyncActive = FALSE
    /\ recognizedText = ""
    /\ lipTimers = 0
    /\ animTimers = 0
    /\ isAvatarReady = FALSE
    /\ avatarRef = "null"
    /\ loading = "import"
    /\ execs = << >>
    /\ headSpeech = << >>
    /\ headGesture = "none"
    /\ audioFiles = files
    /\ audioPlaying = "none"

\* The repository as it is: public/assets/audio holds no audio file.
Init == Mounted({})

\* State of the mount render, read by the callbacks created in the mount effect.
MountIsSpeaking == FALSE
MountIsAvatarReady == FALSE

speak_flagNotSet(text) ==
    /\ Len(synthQueue) < MaxQueue
    /\ isSpeaking' = isSpeaking
    /\ synthQueue' = Append(synthQueue, text)

\* speak(text), the same in both applications: the flag is set and the
\* utterance is queued in the host's speech synthesis.
speak(text) ==
    /\ Len(synthQueue) < MaxQueue
    /\ isSpeaking' = TRUE
    /\ synthQueue' = Append(synthQueue, text)

\* ------------------------------------------- react-three-fiber application
\* performLipSync(text): lip sync on, and a timeout that turns it off.
performLipSync ==
    /\ lipTimers < MaxTimers
    /\ lipSyncActive' = TRUE
    /\ lipTimers' = lipTimers + 1

\* performAnimation(animationType): the tag, and a timeout back to idle.
performAnimation(animationType) ==
    /\ animTimers < MaxTimers
    /\ currentAnimation' = animationType
    /\ animTimers' = animTimers + 1

\* What onresult and testCommand do with the entry they found.
Fiber_announce(cmd) ==
    /\ performLipSync
    /\ performAnimation(cmd.animation)
    /\ speak(getInstructionForCommand(cmd.text))

Fiber_matchedCommand_lastMatch(text) ==
    IF \E i \in 1..Len(FiberVoiceCommands) : includes(text, FiberVoiceCommands[i].text)
    THEN CHOOSE i \in 1..Len(FiberVoiceCommands) :
            /\ includes(text, FiberVoiceCommands[i].text)
            /\ \A j \in (i + 1)..Len(FiberVoiceCommands) :
                  ~includes(text, FiberVoiceCommands[j].text)
    ELSE 0

\* voiceCommands.find(cmd => text.includes(cmd.text)), as an index (0: undefined)
Fiber_matchedCommand(text) ==
    find(Len(FiberVoiceCommands), LAMBDA i : includes(text, FiberVoiceCommands[i].text))

Fiber_matched == [t \in Transcripts |-> Fiber_matchedCommand(LowerCased[t])]

Fiber_startListening ==
    /\ version = "fiber"
    /\ ~(isListening \/ isSpeaking)
    /\ ~isListening
    /\ recognition' = IF recognition = "idle" THEN "starting" ELSE recognition
    /\ UNCHANGED << version, audioFiles, audioPlaying, isListening, isSpeaking, currentStatus, synthQueue, fiberVars, thVars >>

Fiber_stopListening ==
    /\ version = "fiber"
    /\ isListening
    /\ recognition' = IF recognition = "running" THEN "stopping" ELSE recognition
    /\ UNCHANGED << version, audioFiles, audioPlaying, isListening, isSpeaking, currentStatus, synthQueue, fiberVars, thVars >>

Fiber_onstart ==
    /\ version = "fiber"
    /\ recognition = "starting"
    /\ recognition' = "running"
    /\ isListening' = TRUE
    /\ currentStatus' = "Listening for command..."
    /\ UNCHANGED << version, audioFiles, audioPlaying, isSpeaking, synthQueue, fiberVars, thVars >>

Fiber_onresult(transcript) ==
    /\ version = "fiber"
    /\ recognition \in {"running", "stopping"}
    /\ LET text == LowerCased[transcript]
           m == Fiber_matched[transcript]
       IN  /\ recognizedText' = text
           /\ IF m # 0
              THEN /\ currentStatus' = "Executing: " \o FiberUpperCased[m]
                   /\ Fiber_announce(FiberVoiceCommands[m])
              ELSE UNCHANGED << currentStatus, lipSyncActive, lipTimers, currentAnimation,
                                animTimers, isSpeaking, synthQueue >>
    /\ UNCHANGED << version, audioFiles, audioPlaying, isListening, recognition, thVars >>

Fiber_onerror ==
    /\ version = "fiber"
    /\ recognition \in {"starting", "running", "stopping"}
    /\ recognition' = "errored"
    /\ isListening' = FALSE
    /\ currentStatus' = "Voice recognition error. Please try again."
    /\ UNCHANGED << version, audioFiles, audioPlaying, isSpeaking, synthQueue, fiberVars, thVars >>

Fiber_onend ==
    /\ version = "fiber"
    /\ recognition \in {"running", "stopping", "errored"}
    /\ recognition' = "idle"
    /\ isListening' = FALSE
    /\ currentStatus' = IF ~MountIsSpeaking THEN "Ready for voice commands" ELSE currentStatus
    /\ UNCHANGED << version, audioFiles, audioPlaying, isSpeaking, synthQueue, fiberVars, thVars >>

Fiber_testCommand(commandText) ==
    /\ version = "fiber"
    /\ ~(isSpeaking \/ isListening)
    /\ LET c == find(Len(FiberVoiceCommands),
                     LAMBDA i : FiberVoiceCommands[i].text = commandText)
       IN  /\ c # 0
           /\ currentStatus' = "Testing: " \o FiberUpperCased[c]
           /\ Fiber_announce(FiberVoiceCommands[c])
    /\ UNCHANGED << version, audioFiles, audioPlaying, isListening, recognition, recognizedText, thVars >>

Fiber_lipSyncTimeout_stillActive ==
    /\ version = "fiber"
    /\ lipTimers > 0
    /\ lipTimers' = lipTimers - 1
    /\ UNCHANGED << version, audioFiles, audioPlaying, isListening, isSpeaking, currentStatus,
                    recognition, synthQueue, lipSyncActive, currentAnimation, recognizedText,
                    animTimers, thVars >>

\* The timeout of performLipSync fires.
Fiber_lipSyncTimeout ==
    /\ version = "fiber"
    /\ lipTimers > 0
    /\ lipTimers' = lipTimers - 1
    /\ lipSyncActive' = FALSE
    /\ UNCHANGED << version, audioFiles, audioPlaying, isListening, isSpeaking, currentStatus, recognition, synthQueue,
                    currentAnimation, recognizedText, animTimers, thVars >>

Fiber_animationTimeout_tagCleared ==
    /\ version = "fiber"
    /\ animTimers > 0
    /\ animTimers' = animTimers - 1
    /\ currentAnimation' = ""
    /\ UNCHANGED << version, audioFiles, audioPlaying, isListening, isSpeaking, currentStatus, recognition, synthQueue,
                    lipSyncActive, recognizedText, lipTimers, thVars >>

\* The return-to-idle timeout of performAnimation fires.
Fiber_animationTimeout ==
    /\ version = "fiber"
    /\ animTimers > 0
    /\ animTimers' = animTimers - 1
    /\ currentAnimation' = "idle"
    /\ UNCHANGED << version, audioFiles, audioPlaying, isListening, isSpeaking, currentStatus, recognition, synthQueue,
                    lipSyncActive, recognizedText, lipTimers, thVars >>

\* ------------------------------------------------ TalkingHead application
Executing(c) == "Executing: " \o UpperCased[c]

NotRecognized_noList(transcript) ==
    "Command \"" \o transcript \o "\" not recognized."

\* The fallback status of the result handler.
NotRecognized(transcript) ==
    "Command \"" \o transcript \o "\" not recognized. Try: "
        \o join([i \in 1..Len(voiceCommands) |-> voiceCommands[i].command], ", ")

\* The fuzzy match of the result handler: the first entry some word of the
\* transcript contains, or is contained in.
TH_matchedCommand(transcript) ==
    LET words == split(transcript)
    IN  find(Len(voiceCommands), LAMBDA i :
            \E w \in 1..Len(words) :
                \/ includes(words[w], voiceCommands[i].command)
                \/ includes(voiceCommands[i].command, words[w])
                \/ (Len(words[w]) > 3 /\ includes(voiceCommands[i].command, words[w])))

TH_matched == [t \in AllTranscripts |-> TH_matchedCommand(Trimmed[t])]

TH_notRecognized == [t \in AllTranscripts |-> NotRecognized(Trimmed[t])]

\* performGesture(gesture): the gesture (or mood) asked of the avatar.
performGesture(gesture) ==
    IF gesture \in {"wave", "point", "explain", "present", "greet", "alert"}
    THEN gesture
    ELSE headGesture

RemoveAt(seq, e) == SubSeq(seq, 1, e - 1) \o SubSeq(seq, e + 1, Len(seq))

executeCommand_noReadyCheck(c, ready) ==
    /\ currentStatus' = Executing(c)
    /\ IF avatarRef = "head"
       THEN /\ Len(execs) < MaxExec
            /\ isSpeaking' = TRUE
            /\ headGesture' = performGesture(voiceCommands[c].gesture)
            /\ execs' = Append(execs, [cmd |-> c, pc |-> "gesture"])
            /\ UNCHANGED synthQueue
       ELSE /\ speak(voiceCommands[c].instruction)
            /\ UNCHANGED << execs, headGesture >>

\* executeCommand(command) up to its first await; `ready` is isAvatarReady as
\* the calling closure sees it.
executeCommand(c, ready) ==
    IF ~ready
    THEN UNCHANGED << currentStatus, isSpeaking, synthQueue, execs, headGesture >>
    ELSE /\ currentStatus' = Executing(c)
         /\ IF avatarRef = "head"
            THEN /\ Len(execs) < MaxExec
                 /\ isSpeaking' = TRUE
                 /\ headGesture' = performGesture(voiceCommands[c].gesture)
                 /\ execs' = Append(execs, [cmd |-> c, pc |-> "gesture"])
                 /\ UNCHANGED synthQueue
            ELSE /\ speak(voiceCommands[c].instruction)
                 /\ UNCHANGED << execs, headGesture >>

\* initializeTalkingHead: the module is imported and the avatar created.
TH_moduleLoaded ==
    /\ version = "talkinghead"
    /\ loading = "import"
    /\ loading' = "showAvatar"
    /\ currentStatus' = "Loading crew member avatar..."
    /\ UNCHANGED << version, audioFiles, audioPlaying, isListening, isSpeaking, recognition, synthQueue, fiberVars,
                    isAvatarReady, avatarRef, execs, headSpeech, headGesture >>

\* showAvatar reports its progress.
TH_loadProgress ==
    /\ version = "talkinghead"
    /\ loading = "showAvatar"
    /\ currentStatus' = "Loading avatar: ..."
    /\ UNCHANGED << version, audioFiles, audioPlaying, isListening, isSpeaking, recognition, synthQueue, fiberVars, thVars >>

\* showAvatar resolves: the avatar is ready (setupCrewGestures changes no state).
TH_avatarLoaded ==
    /\ version = "talkinghead"
    /\ loading = "showAvatar"
    /\ loading' = "done"
    /\ avatarRef' = "head"
    /\ isAvatarReady' = TRUE
    /\ currentStatus' = "Professional crew avatar ready!"
    /\ UNCHANGED << version, audioFiles, audioPlaying, isListening, isSpeaking, recognition, synthQueue, fiberVars,
                    execs, headSpeech, headGesture >>

\* The import, the constructor or showAvatar fails: the catch block runs
\* createFallbackAvatar (the mount node exists and a fresh canvas has a 2d context).
TH_loadFailed ==
    /\ version = "talkinghead"
    /\ loading \in {"import", "showAvatar"}
    /\ loading' = "done"
    /\ isAvatarReady' = TRUE
    /\ currentStatus' = "Backup crew avatar ready!"
    /\ UNCHANGED << version, audioFiles, audioPlaying, isListening, isSpeaking, recognition, synthQueue, fiberVars,
                    avatarRef, execs, headSpeech, headGesture >>

TH_startListening ==
    /\ version = "talkinghead"
    /\ ~isListening
    /\ isAvatarReady
    /\ isListening' = TRUE
    /\ currentStatus' = "Listening for command..."
    /\ recognition' = IF recognition = "idle" THEN "starting" ELSE recognition
    /\ UNCHANGED << version, audioFiles, audioPlaying, isSpeaking, synthQueue, fiberVars, thVars >>

\* The engine's start event; the application installs no handler for it.
TH_onstart ==
    /\ version = "talkinghead"
    /\ recognition = "starting"
    /\ recognition' = "running"
    /\ UNCHANGED << version, audioFiles, audioPlaying, isListening, isSpeaking, currentStatus, synthQueue, fiberVars, thVars >>

\* The result event of a session that is not continuous: the session ends after it.
TH_onresult(t) ==
    /\ version = "talkinghead"
    /\ recognition = "running"
    /\ recognition' = "stopping"
    /\ IF TH_matched[t] # 0
       THEN executeCommand(TH_matched[t], MountIsAvatarReady)
       ELSE /\ currentStatus' = TH_notRecognized[t]
            /\ UNCHANGED << isSpeaking, synthQueue, execs, headGesture >>
    /\ UNCHANGED << version, audioFiles, audioPlaying, isListening, fiberVars, isAvatarReady, avatarRef, loading, headSpeech >>

TH_onerror ==
    /\ version = "talkinghead"
    /\ recognition \in {"starting", "running", "stopping"}
    /\ recognition' = "errored"
    /\ isListening' = FALSE
    /\ currentStatus' = "Voice recognition error. Please try again."
    /\ UNCHANGED << version, audioFiles, audioPlaying, isSpeaking, synthQueue, fiberVars, thVars >>

TH_onend ==
    /\ version = "talkinghead"
    /\ recognition \in {"running", "stopping", "errored"}
    /\ recognition' = "idle"
    /\ isListening' = FALSE
    /\ UNCHANGED << version, audioFiles, audioPlaying, isSpeaking, currentStatus, synthQueue, fiberVars, thVars >>

TH_testCommand(commandText) ==
    /\ version = "talkinghead"
    /\ ~(isSpeaking \/ ~isAvatarReady)
    /\ LET c == find(Len(voiceCommands), LAMBDA i : voiceCommands[i].command = commandText)
       IN  /\ c # 0
           /\ executeCommand(c, isAvatarReady)
    /\ UNCHANGED << version, audioFiles, audioPlaying, isListening, recognition, fiberVars,
                    isAvatarReady, avatarRef, loading, headSpeech >>

\* executeCommand resumes after the gesture and calls speakText.
TH_speakText(e) ==
    /\ version = "talkinghead"
    /\ e \in 1..Len(execs)
    /\ execs[e].pc = "gesture"
    /\ Len(headSpeech) < MaxHeadSpeech
    /\ headSpeech' = Append(headSpeech, voiceCommands[execs[e].cmd].instruction)
    /\ execs' = [execs EXCEPT ![e].pc = "speakText"]
    /\ UNCHANGED << version, audioFiles, audioPlaying, isListening, isSpeaking, currentStatus, recognition, synthQueue,
                    fiberVars, isAvatarReady, avatarRef, loading, headGesture >>

\* speakText resolves: executeCommand resumes after it.
TH_speakTextDone(e) ==
    /\ version = "talkinghead"
    /\ e \in 1..Len(execs)
    /\ execs[e].pc = "speakText"
    /\ isSpeaking' = FALSE
    /\ currentStatus' = UpperCased[execs[e].cmd] \o " announcement completed"
    /\ execs' = RemoveAt(execs, e)
    /\ UNCHANGED << version, audioFiles, audioPlaying, isListening, recognition, synthQueue, fiberVars,
                    isAvatarReady, avatarRef, loading, headSpeech, headGesture >>

\* speakText throws or rejects: the catch block speaks with the browser.
TH_speakTextFailed(e) ==
    /\ version = "talkinghead"
    /\ e \in 1..Len(execs)
    /\ speak(voiceCommands[execs[e].cmd].instruction)
    /\ execs' = RemoveAt(execs, e)
    /\ UNCHANGED << version, audioFiles, audioPlaying, isListening, currentStatus, recognition, fiberVars,
                    isAvatarReady, avatarRef, loading, headSpeech, headGesture >>

\* The avatar finishes the text it is speaking.
TH_headSpeechEnd ==
    /\ version = "talkinghead"
    /\ headSpeech # << >>
    /\ headSpeech' = Tail(headSpeech)
    /\ UNCHANGED << version, audioFiles, audioPlaying, isListening, isSpeaking, currentStatus, recognition, synthQueue,
                    fiberVars, isAvatarReady, avatarRef, loading, execs, headGesture >>

\* The Stop button, rendered while isSpeaking.
TH_stopSpeaking ==
    /\ version = "talkinghead"
    /\ isSpeaking
    /\ synthQueue' = << >>
    /\ headSpeech' = IF avatarRef = "head" THEN << >> ELSE headSpeech
    /\ isSpeaking' = FALSE
    /\ currentStatus' = "Speech stopped"
    /\ UNCHANGED << version, audioFiles, audioPlaying, isListening, recognition, fiberVars,
                    isAvatarReady, avatarRef, loading, execs, headGesture >>

\* ------------------------------------------------- host speech synthesis
Utterance_onend_flagKept ==
    /\ synthQueue # << >>
    /\ synthQueue' = Tail(synthQueue)
    /\ currentStatus' = "Announcement completed"
    /\ UNCHANGED << version, audioFiles, audioPlaying, isListening, isSpeaking, recognition, fiberVars, thVars >>

\* The utterance at the head of the queue finishes: its onend handler runs.
Utterance_onend ==
    /\ synthQueue # << >>
    /\ synthQueue' = Tail(synthQueue)
    /\ isSpeaking' = FALSE
    /\ currentStatus' = "Announcement completed"
    /\ UNCHANGED << version, audioFiles, audioPlaying, isListening, recognition, fiberVars, thVars >>

\* The utterance at the head of the queue fails: the engine fires its error
\* event and no end event; the code installs no error handler.
Utterance_onerror ==
    /\ synthQueue # << >>
    /\ synthQueue' = Tail(synthQueue)
    /\ UNCHANGED << version, audioFiles, audioPlaying, isListening, isSpeaking, currentStatus, recognition, fiberVars, thVars >>

\* ------------------------------------------------------- specifications
FiberNext ==
    \/ Fiber_startListening
    \/ Fiber_stopListening
    \/ Fiber_onstart
    \/ \E t \in Transcripts : Fiber_onresult(t)
    \/ Fiber_onerror
    \/ Fiber_onend
    \/ \E i \in 1..Len(FiberVoiceCommands) : Fiber_testCommand(FiberVoiceCommands[i].text)
    \/ Fiber_lipSyncTimeout
    \/ Fiber_animationTimeout

TalkingHeadNext ==
    \/ TH_moduleLoaded
    \/ TH_loadProgress
    \/ TH_avatarLoaded
    \/ TH_loadFailed
    \/ TH_startListening
    \/ TH_onstart
    \/ \E t \in Transcripts : TH_onresult(t)
    \/ TH_onerror
    \/ TH_onend
    \/ \E i \in 1..Len(voiceCommands) : TH_testCommand(voiceCommands[i].command)
    \/ \E e \in 1..MaxExec : TH_speakText(e)
    \/ \E e \in 1..MaxExec : TH_speakTextDone(e)
    \/ \E e \in 1..MaxExec : TH_speakTextFailed(e)
    \/ TH_headSpeechEnd
    \/ TH_stopSpeaking

SynthesisNext ==
    \/ Utterance_onend
    \/ Utterance_onerror

Next == FiberNext \/ TalkingHeadNext \/ SynthesisNext

\* Both applications.
Spec == Init /\ [][Next]_vars

\* The react-three-fiber application alone.
FiberInit == Init /\ version = "fiber"

FiberSystemNext == FiberNext \/ SynthesisNext

SpecFiber == FiberInit /\ [][FiberSystemNext]_vars

\* The TalkingHead application alone.
TalkingHeadInit == Init /\ version = "talkinghead"

TalkingHeadSystemNext == TalkingHeadNext \/ SynthesisNext

SpecTalkingHead == TalkingHeadInit /\ [][TalkingHeadSystemNext]_vars

\* The TalkingHead application hearing, besides the transcripts above, the
\* example phrases of the README.
ReadmeNext ==
    \/ \E t \in ReadmePhrases : TH_onresult(t)
    \/ TalkingHeadSystemNext

SpecReadme == TalkingHeadInit /\ [][ReadmeNext]_vars

\* The TalkingHead application after the audio README's instructions were
\* followed for its example: turbulence.mp3 is installed.
AudioInit == Mounted({AudioPath[1]}) /\ version = "talkinghead"

SpecAudio == AudioInit /\ [][TalkingHeadSystemNext]_vars

\* The fiber application with its pending timeouts firing: a timeout the
\* host has scheduled is run once its delay has passed.
SpecFiberTimers ==
    /\ FiberInit
    /\ [][FiberSystemNext]_vars
    /\ WF_vars(Fiber_lipSyncTimeout)
    /\ WF_vars(Fiber_animationTimeout)

\* ----------------------------------------------------------------- claims
Last(seq) == seq[Len(seq)]

\* The command tables as the claims read them: entry i's keyword in capitals.
FiberKeywordInCapitals ==
    << "TURBULENCE", "SEATBELT", "LANDING", "TAKEOFF", "EMERGENCY", "WELCOME", "SAFETY" >>

KeywordInCapitals ==
    << "TURBULENCE", "SEATBELT", "LANDING", "SAFETY", "WELCOME", "EMERGENCY" >>

\* A step in which the test button of entry i is pressed.
FiberTestStep(i) == Fiber_testCommand(FiberVoiceCommands[i].text)
TalkingHeadTestStep(i) == TH_testCommand(voiceCommands[i].command)

\* The test buttons of each application are enabled (their `disabled`
\* expressions are false).
FiberTestEnabled == version = "fiber" /\ ~(isSpeaking \/ isListening)
TalkingHeadTestEnabled == version = "talkinghead" /\ ~(isSpeaking \/ ~isAvatarReady)

\* Fiber application: pressing the test button of entry i queues the text
\* the instruction table holds under the entry's keyword, never the default
\* text, and makes the entry's tag the current animation.
C1_FiberTextAndTag ==
    FiberTestEnabled =>
        \A i \in 1..Len(FiberVoiceCommands) :
            FiberTestStep(i) =>
                /\ Last(synthQueue') = FiberInstructions[FiberVoiceCommands[i].text]
                /\ Last(synthQueue') # DefaultInstruction
                /\ currentStatus' = "Testing: " \o FiberKeywordInCapitals[i]
                /\ currentAnimation' = FiberVoiceCommands[i].animation

\* TalkingHead application: pressing the test button of entry i queues the
\* entry's instruction with the browser (fallback avatar) or suspends a call
\* for the entry's gesture.
C1_TalkingHeadText(i) ==
    /\ currentStatus' = "Executing: " \o KeywordInCapitals[i]
    /\ IF avatarRef = "head"
       THEN Last(execs') = [cmd |-> i, pc |-> "gesture"]
       ELSE Last(synthQueue') = voiceCommands[i].instruction

\* The text the avatar is given after the gesture is the instruction of the
\* suspended call.
C1_AvatarGivenText ==
    execs # << >> =>
        \A e \in 1..MaxExec :
            TH_speakText(e) =>
                Last(headSpeech') = voiceCommands[execs[e].cmd].instruction

\* C1 as stated: pressing the test button of any table entry yields the
\* entry's instruction text as the spoken text and the entry's animation or
\* gesture tag as the active tag, in both applications.
C1_TestCommandYieldsTextAndTag ==
    [][ /\ C1_FiberTextAndTag
        /\ C1_AvatarGivenText
        /\ TalkingHeadTestEnabled =>
              \A i \in 1..Len(voiceCommands) :
                  TalkingHeadTestStep(i) =>
                      /\ C1_TalkingHeadText(i)
                      /\ headGesture' = voiceCommands[i].gesture ]_vars

\* C1 amended: pressing the test button of any table entry yields the entry's
\* instruction text as the spoken text; the entry's tag becomes the active
\* animation in the fiber application and the gesture asked of the avatar in
\* the TalkingHead application when the TalkingHead avatar is loaded; with
\* the fallback canvas avatar no gesture is requested.
C1_TestCommandYieldsTextAndLoadedAvatarTag ==
    [][ /\ C1_FiberTextAndTag
        /\ C1_AvatarGivenText
        /\ TalkingHeadTestEnabled =>
              \A i \in 1..Len(voiceCommands) :
                  TalkingHeadTestStep(i) =>
                      /\ C1_TalkingHeadText(i)
                      /\ headGesture' = IF avatarRef = "head"
                                        THEN voiceCommands[i].gesture
                                        ELSE headGesture ]_vars

\* The takeoff button has been pressed in the fiber application: its own text
\* is queued and its own tag is the current animation.
C1_Witness ==
    /\ version = "fiber"
    /\ currentStatus = "Testing: TAKEOFF"
    /\ currentAnimation = "preparation"
    /\ synthQueue = << "Ladies and gentlemen, we are preparing for takeoff. Please ensure your seats are in the upright position." >>

\* Whether the lower-cased transcript t contains the keyword of fiber entry i.
C2_Contains ==
    [t \in Transcripts |->
        [i \in 1..Len(FiberVoiceCommands) |->
            includes(toLowerCase(t), FiberVoiceCommands[i].text)]]

\* C2: in the fiber application a result event whose lower-cased transcript
\* contains keyword k and no keyword placed earlier in the table sets the
\* status to 'Executing: K', the current animation to k's tag, lip sync
\* active, and queues k's instruction text for speaking.
C2_ResultExecutesFirstKeyword ==
    [][ \A t \in Transcripts :
          Fiber_onresult(t) =>
              \A i \in 1..Len(FiberVoiceCommands) :
                  (C2_Contains[t][i] /\ \A j \in 1..(i - 1) : ~C2_Contains[t][j]) =>
                      /\ currentStatus' = "Executing: " \o FiberKeywordInCapitals[i]
                      /\ currentAnimation' = FiberVoiceCommands[i].animation
                      /\ lipSyncActive'
                      /\ isSpeaking'
                      /\ Last(synthQueue') = FiberInstructions[FiberVoiceCommands[i].text] ]_vars

\* A transcript holding two keywords has been recognised and the one placed
\* first in the table is being executed.
C2_Witness ==
    /\ version = "fiber"
    /\ recognizedText = "welcome to the safety demo"
    /\ currentStatus = "Executing: WELCOME"
    /\ currentAnimation = "greeting"
    /\ lipSyncActive
    /\ isSpeaking
    /\ Last(synthQueue) = "Welcome aboard this flight. We hope you have a pleasant journey with us today."

\* C3: in the TalkingHead application, once the avatar is ready, a result
\* event whose transcript is one of the six keywords executes that command:
\* the status becomes 'Executing: KEYWORD' and the instruction text is spoken
\* (queued with the browser, or handed to the avatar after its gesture).
C3_ReadyResultExecutesCommand ==
    [][ \A t \in Transcripts : \A i \in 1..Len(voiceCommands) :
          (isAvatarReady /\ TH_onresult(t) /\ Trimmed[t] = voiceCommands[i].command) =>
              /\ currentStatus' = "Executing: " \o KeywordInCapitals[i]
              /\ IF avatarRef = "head"
                 THEN Last(execs') = [cmd |-> i, pc |-> "gesture"]
                 ELSE Last(synthQueue') = voiceCommands[i].instruction ]_vars

\* Whether some keyword of the application's table occurs in the lower-cased
\* transcript t.
C4_FiberHasKeyword ==
    [t \in Transcripts |->
        \E i \in 1..Len(FiberVoiceCommands) :
            includes(toLowerCase(t), FiberVoiceCommands[i].text)]

C4_TalkingHeadHasKeyword ==
    [t \in Transcripts |->
        \E i \in 1..Len(voiceCommands) :
            includes(toLowerCase(t), voiceCommands[i].command)]

\* Whether some word of the trimmed, lower-cased transcript t contains a
\* keyword or is contained in one.
C4_TalkingHeadWordMatches ==
    [t \in Transcripts |->
        LET words == split(trim(toLowerCase(t)))
        IN  \E w \in 1..Len(words) : \E i \in 1..Len(voiceCommands) :
                \/ includes(words[w], voiceCommands[i].command)
                \/ includes(voiceCommands[i].command, words[w])]

\* The fallback message for transcript t, as the status line shows it.
C4_FallbackMessage ==
    [t \in Transcripts |->
        "Command \"" \o trim(toLowerCase(t))
            \o "\" not recognized. Try: turbulence, seatbelt, landing, safety, welcome, emergency"]

\* No announcement is started by the step.
C4_NoCommandExecuted ==
    UNCHANGED << isSpeaking, synthQueue, execs, headSpeech, headGesture,
                 currentAnimation, lipSyncActive, lipTimers, animTimers >>

C5_ListeningOnlyDuringSession ==
    isListening => recognition \in {"starting", "running", "stopping"}

\* A step that starts a speech synthesis: an utterance is queued with the
\* browser, or a text is handed to the TalkingHead avatar.
C6_SynthesisStarts ==
    \/ Len(synthQueue') > Len(synthQueue)
    \/ Len(headSpeech') > Len(headSpeech)

\* A step that runs the completion callback of a synthesis.
C6_CompletionRuns ==
    \/ Utterance_onend
    \/ \E e \in 1..MaxExec : TH_speakTextDone(e)

\* C6 as stated: the speaking flag is true only between the start of a
\* speech synthesis and its completion callback: it turns true only in a
\* step that starts a synthesis, and it is false after every completion
\* callback.
C6_SpeakingOnlyDuringSynthesis ==
    [][ /\ (~isSpeaking /\ isSpeaking') => C6_SynthesisStarts
        /\ C6_CompletionRuns => ~isSpeaking' ]_vars

\* C6 amended: the speaking flag is true only between the start of an
\* announcement and its completion callback, where on the TalkingHead path
\* the announcement starts when executeCommand sets the flag, before the
\* gesture is awaited and before speakText is called: the flag turns true
\* only in a step that queues an utterance with the browser or suspends an
\* executeCommand call for its gesture, and it is false after every
\* completion callback.
C6_SpeakingOnlyDuringAnnouncement ==
    [][ /\ (~isSpeaking /\ isSpeaking') =>
              (C6_SynthesisStarts \/ Len(execs') > Len(execs))
        /\ C6_CompletionRuns => ~isSpeaking' ]_vars

\* The flag is true while the gesture is awaited and nothing is being spoken.
C6_Witness ==
    /\ isSpeaking
    /\ execs # << >> /\ execs[1].pc = "gesture"
    /\ headSpeech = << >>
    /\ synthQueue = << >>

C7_ErrorMessage == "Voice recognition error. Please try again."

\* C7: when the engine reports an error the listening flag is false and the
\* status shows the recognition-error message, and the end event the engine
\* delivers after the error leaves both so.
C7_ErrorMessageSurvivesEnd ==
    [][ /\ (recognition # "errored" /\ recognition' = "errored") =>
              (~isListening' /\ currentStatus' = C7_ErrorMessage)
        /\ (recognition = "errored" /\ recognition' = "idle"
                /\ ~isListening /\ currentStatus = C7_ErrorMessage) =>
              (~isListening' /\ currentStatus' = C7_ErrorMessage) ]_vars

\* C8: after loading has failed and the fallback avatar is ready, every
\* command triggered, by its test button or by a result event whose
\* transcript is its keyword, is served by the browser speaking the
\* command's instruction text.
C8_FallbackServesEveryCommand ==
    [][ (isAvatarReady /\ avatarRef = "null") =>
          \A i \in 1..Len(voiceCommands) :
              (\/ TalkingHeadTestStep(i)
               \/ \E t \in Transcripts :
                     TH_onresult(t) /\ Trimmed[t] = voiceCommands[i].command) =>
                  (isSpeaking' /\ synthQueue' # << >>
                      /\ Last(synthQueue') = voiceCommands[i].instruction) ]_vars

\* Some start-listening or test-command control is enabled.
C9_ControlEnabled ==
    IF version = "fiber"
    THEN ~(isListening \/ isSpeaking)
    ELSE isAvatarReady /\ (~isListening \/ ~isSpeaking)

\* C9: no failure is fatal: the application is never left with every
\* start-listening and test-command control disabled and nothing pending that
\* could enable one again.
C9_NoFailureIsFatal == C9_ControlEnabled \/ ENABLED Next

\* C10: in the fiber application the start-listening and test-command
\* controls act only while neither flag is set, yet the flags are not
\* exclusive: a voice command recognised during a listening session leaves
\* the listening flag set and sets the speaking flag.
C10_FlagsNotExclusive ==
    [][ /\ (Fiber_startListening /\ recognition' # recognition) =>
              (~isListening /\ ~isSpeaking)
        /\ \A i \in 1..Len(FiberVoiceCommands) :
              FiberTestStep(i) => (~isListening /\ ~isSpeaking)
        /\ \A t \in Transcripts :
              (Fiber_onresult(t) /\ isListening /\ C4_FiberHasKeyword[t]) =>
                  (isListening' /\ isSpeaking') ]_vars

\* A voice command is being announced while the session still listens.
C10_Witness ==
    /\ version = "fiber"
    /\ isListening
    /\ isSpeaking
    /\ recognition = "running"
    /\ currentStatus = "Executing: SEATBELT"
    /\ recognizedText = "seatbelt"

\* The animation tags of the command table.
TableAnimations == { FiberVoiceCommands[i].animation : i \in 1..Len(FiberVoiceCommands) }

\* C11: in every reachable state currentAnimation is 'idle' or the animation
\* tag of one entry of the command table.
C11_OneTableTagActive == currentAnimation \in {"idle"} \cup TableAnimations

\* A later trigger's tag is active while two return-to-idle timers are pending.
C11_Witness ==
    /\ version = "fiber"
    /\ currentAnimation = "demonstration"
    /\ animTimers = 2

\* C12: lip sync follows the ongoing speech: lipSyncActive is true whenever
\* an announcement is being spoken and false once none is.
C12_LipSyncFollowsSpeech ==
    version = "fiber" => (lipSyncActive <=> synthQueue # << >>)

\* C13: the tag in currentAnimation, when it is a tag of the command table,
\* selects a branch of its own in the per-frame update, not the default one.
C13_EveryTagHasOwnBranch ==
    (version = "fiber" /\ currentAnimation \in TableAnimations) =>
        /\ AnimationEffect(currentAnimation) = currentAnimation
        /\ AnimationEffect(currentAnimation) # AnimationEffect("idle")

\* C14: after Stop is pressed, while the status reads 'Speech stopped' (no
\* command has been triggered since), the speaking flag is false and nothing
\* is spoken by the avatar or by the browser.
C14_StopStopsAnnouncement ==
    (version = "talkinghead" /\ currentStatus = "Speech stopped") =>
        /\ ~isSpeaking
        /\ headSpeech = << >>
        /\ synthQueue = << >>

\* C15: a result event whose transcript is an example phrase of the README's
\* table is matched to the command of the phrase's row, and so does not get
\* the not-recognized status.
C15_ReadmePhrasesMatchTheirRow ==
    [][ recognition = "running" =>
          \A t \in ReadmePhrases :
              TH_onresult(t) =>
                  /\ TH_matched[t] # 0
                  /\ voiceCommands[TH_matched[t]].command = ReadmeCommand[t]
                  /\ currentStatus' # TH_notRecognized[t] ]_vars

\* C16: executing a command whose audio file is installed plays that file,
\* and executing a command whose audio file is absent speaks its instruction
\* text by text-to-speech (the browser's, or the avatar's after the gesture).
C16_AudioFileOrTextToSpeech ==
    [][ TalkingHeadTestEnabled =>
          \A i \in 1..Len(voiceCommands) :
              TalkingHeadTestStep(i) =>
                  IF AudioPath[i] \in audioFiles
                  THEN audioPlaying' = AudioPath[i]
                  ELSE IF avatarRef = "head"
                       THEN Last(execs') = [cmd |-> i, pc |-> "gesture"]
                       ELSE Last(synthQueue') = voiceCommands[i].instruction ]_vars

\* C17: in the fiber application the end handler leaves the status text
\* unchanged when the session ends while an announcement is being spoken, and
\* sets it to 'Ready for voice commands' only when nothing is being spoken.
C17_EndKeepsStatusWhileSpeaking ==
    [][ Fiber_onend =>
          currentStatus' = IF isSpeaking THEN currentStatus
                           ELSE "Ready for voice commands" ]_vars

\* C18: in the fiber application at most one utterance is queued or being
\* spoken at a time, and the speaking flag is true as long as one is.
C18_OneAnnouncementAtATime ==
    version = "fiber" =>
        /\ Len(synthQueue) <= 1
        /\ synthQueue # << >> => isSpeaking

\* C19: while the return-to-idle timer of the latest trigger is pending (the
\* timers all run 2500 ms, so they fire in the order of their triggers and
\* the latest is pending as long as any is), currentAnimation still holds a
\* command's tag: no earlier timer has reset it to 'idle'.
C19_TagHeldUntilOwnTimer ==
    (version = "fiber" /\ animTimers > 0) => currentAnimation # "idle"

\* A command is triggered in the fiber application: by a test button, or by
\* a result event whose transcript contains a keyword.
C20_Trigger ==
    \/ \E i \in 1..Len(FiberVoiceCommands) : FiberTestStep(i)
    \/ \E t \in Transcripts : C4_FiberHasKeyword[t] /\ Fiber_onresult(t)

\* The avatar is at rest.
C20_AtRest == currentAnimation = "idle" /\ ~lipSyncActive

\* C20: if from some point on no command is triggered, then, the pending
\* timers firing, the avatar returns to rest and stays there: from some
\* point on currentAnimation is 'idle' and lipSyncActive is false.
C20_ReturnsToRestAfterLastTrigger ==
    <>[][~C20_Trigger]_vars => <>[]C20_AtRest

\* Back at rest after an announcement: every timer has fired.
C20_Witness ==
    /\ version = "fiber"
    /\ C20_AtRest
    /\ animTimers = 0 /\ lipTimers = 0
    /\ ~isSpeaking
    /\ currentStatus = "Announcement completed"

\* The first entry of the fiber table whose keyword the lower-cased
\* transcript t contains (0: none).
C21_FiberFirstEntry ==
    [t \in Transcripts |->
        IF \E i \in 1..Len(FiberVoiceCommands) : C2_Contains[t][i]
        THEN CHOOSE i \in 1..Len(FiberVoiceCommands) :
                C2_Contains[t][i] /\ \A j \in 1..(i - 1) : ~C2_Contains[t][j]
        ELSE 0]

\* Whether some word of the trimmed, lower-cased transcript t contains the
\* keyword of TalkingHead entry i.
C21_WordContains ==
    [t \in Transcripts |->
        [i \in 1..Len(voiceCommands) |->
            LET words == split(trim(toLowerCase(t)))
            IN  \E w \in 1..Len(words) : includes(words[w], voiceCommands[i].command)]]

\* C21: a result event whose transcript holds several keywords executes
\* exactly one command, the matching entry that comes first in the table; in
\* the TalkingHead application the matcher selects an entry only if a word of
\* the transcript contains its keyword, so a transcript of fragments or empty
\* words selects none and gets the not-recognized status.
C21_OneCommandFirstInTableOrder ==
    [][ (recognition = "running" \/ recognition = "stopping") =>
          \A t \in Transcripts :
              /\ (C21_FiberFirstEntry[t] # 0 /\ Fiber_onresult(t)) =>
                    /\ Len(synthQueue') = Len(synthQueue) + 1
                    /\ Last(synthQueue') =
                          FiberInstructions[FiberVoiceCommands[C21_FiberFirstEntry[t]].text]
                    /\ currentAnimation' = FiberVoiceCommands[C21_FiberFirstEntry[t]].animation
              /\ TH_onresult(t) =>
                    /\ \A i \in 1..Len(voiceCommands) :
                          TH_matched[t] = i =>
                              /\ C21_WordContains[t][i]
                              /\ \A j \in 1..(i - 1) : ~C21_WordContains[t][j]
                    /\ (\A i \in 1..Len(voiceCommands) : ~C21_WordContains[t][i]) =>
                          /\ currentStatus' = TH_notRecognized[t]
                          /\ C4_NoCommandExecuted ]_vars

\* recognition.start() can be invoked: the start control of the running
\* application is enabled and its handler passes its guard.
C22_StartCanBeInvoked == ENABLED Fiber_startListening \/ ENABLED TH_startListening

\* C22: recognition.start() is never invoked while a session is starting or
\* running: in no reachable state with such a session can the start control
\* be pressed and its handler reach the call.
C22_NoSecondStart ==
    C22_StartCanBeInvoked => recognition \notin {"starting", "running"}

\* The test-command and voice controls of the TalkingHead application.
C23_ControlsEnabled ==
    \/ ENABLED TH_startListening
    \/ \E i \in 1..Len(voiceCommands) : ENABLED TH_testCommand(voiceCommands[i].command)

\* C23: in the TalkingHead application the test-command and voice controls
\* are disabled until isAvatarReady is true, and a command executed by a
\* caller that sees isAvatarReady false (the result handler, which keeps the
\* executeCommand of the mount render) changes nothing: the status text, the
\* speaking flag and the speech engines are left as they were.
C23_NotReadyChangesNothing ==
    /\ [](version = "talkinghead" /\ ~isAvatarReady => ~C23_ControlsEnabled)
    /\ [][ recognition = "running" =>
            \A t \in Transcripts :
                (TH_onresult(t) /\ TH_matched[t] # 0 /\ ~MountIsAvatarReady) =>
                    UNCHANGED << currentStatus, isSpeaking, synthQueue, headSpeech,
                                 execs, headGesture, audioPlaying >> ]_vars

\* A matched command has been passed to executeCommand by the result handler
\* and nothing has changed: the session is ending with the status untouched.
C23_Witness ==
    /\ version = "talkinghead"
    /\ recognition = "stopping"
    /\ currentStatus = "Listening for command..."
    /\ ~isSpeaking
    /\ synthQueue = << >>
    /\ execs = << >>
====
